---- MODULE Spec2Model ----
(***************************************************************************)
(* A model of iex_parser: the segment decoder (DeepPcapReader._read), the  *)
(* message decoder (messages.decode_message) and the streaming pipeline    *)
(* (DeepPcapReader._fill / __next__ and the Parser scope).                 *)
(*                                                                         *)
(* Buffers are sequences of bytes (0..255).  Python offsets are 0-based;   *)
(* the operators below take Python offsets and translate to 1-based        *)
(* sequence positions themselves.                                          *)
(***************************************************************************)
EXTENDS Integers, Sequences, FiniteSets, TLC

(***************************************************************************)
(* Bounds of the model.                                                    *)
(***************************************************************************)
\* longest capture (number of packets in the capture file)
MaxPackets == 2
\* largest queue_length handed to Parser
MaxQueueLength == 2

(***************************************************************************)
(* Byte helpers.                                                           *)
(***************************************************************************)
Min(a, b) == IF a < b THEN a ELSE b

\* Python's buf[start:end] for 0 <= start: the slice is clamped to the buffer.
Slice(buf, start, end) == SubSeq(buf, start + 1, Min(end, Len(buf)))

\* buf[start:]
SliceFrom(buf, start) == SubSeq(buf, start + 1, Len(buf))

\* struct.unpack('<H', b)[0] for a two-byte b (unsigned, little-endian).
unpack_H(b) == b[1] + 256 * b[2]

\* flags & mask != 0 for a one-bit mask.
HasBit(flags, mask) == (flags \div mask) % 2 = 1

\* No error.
OK == ""

(***************************************************************************)
(* bytes.decode('utf-8'): the strict decoder accepts exactly the           *)
(* well-formed UTF-8 byte sequences.                                       *)
(***************************************************************************)
IsCont(b) == b >= 128 /\ b <= 191

RECURSIVE Utf8Valid(_)
Utf8Valid(s) ==
    IF s = << >> THEN TRUE
    ELSE LET b == s[1]
             n == Len(s)
         IN  IF b < 128 THEN Utf8Valid(Tail(s))
             ELSE IF b >= 194 /\ b <= 223
                  THEN n >= 2 /\ IsCont(s[2]) /\ Utf8Valid(SubSeq(s, 3, n))
             ELSE IF b >= 224 /\ b <= 239
                  THEN /\ n >= 3
                       /\ IsCont(s[2]) /\ IsCont(s[3])
                       /\ (b = 224 => s[2] >= 160)
                       /\ (b = 237 => s[2] <= 159)
                       /\ Utf8Valid(SubSeq(s, 4, n))
             ELSE IF b >= 240 /\ b <= 244
                  THEN /\ n >= 4
                       /\ IsCont(s[2]) /\ IsCont(s[3]) /\ IsCont(s[4])
                       /\ (b = 240 => s[2] >= 144)
                       /\ (b = 244 => s[2] <= 143)
                       /\ Utf8Valid(SubSeq(s, 5, n))
             ELSE FALSE

\* _to_str(value) raises UnicodeDecodeError exactly when the bytes are not UTF-8.
_to_str_err(value) == IF Utf8Valid(value) THEN OK ELSE "UnicodeDecodeError"

\* The characters str.strip() removes, among the one-byte (ASCII) characters.
AsciiWhitespace == {9, 10, 11, 12, 13, 28, 29, 30, 31, 32}

\* _to_str(value) for a one-byte value that decodes: the character, or the
\* empty string when the character is whitespace.
_to_str_1(value) == IF value[1] \in AsciiWhitespace THEN << >> ELSE value

\* The first error of a sequence of evaluations, in evaluation order.
RECURSIVE FirstErr(_)
FirstErr(errs) ==
    IF errs = << >> THEN OK
    ELSE IF errs[1] # OK THEN errs[1] ELSE FirstErr(Tail(errs))

\* The result of a decoder: an error raised, or a record returned.
Raise(e) == [err |-> e, rec |-> [type |-> "<none>"]]
Return(r) == [err |-> OK, rec |-> r]

(***************************************************************************)
(* messages.py: the lookup tables and the decoders.  A decoded record      *)
(* keeps its 'type' and its coded and flag fields; timestamps, prices,     *)
(* sizes and symbols are not carried (their conversions raise nothing for  *)
(* any 8-byte value, except _to_str, whose error is modelled).             *)
(***************************************************************************)
SYSTEM_EVENT_TYPES ==
    [c \in {79, 83, 82, 67, 69, 77} |->
        CASE c = 79 -> "start_of_messages"
          [] c = 83 -> "start_of_system_hours"
          [] c = 82 -> "start_of_regular_hours"
          [] c = 67 -> "end_of_messages"
          [] c = 69 -> "end_of_system_hours"
          [] c = 77 -> "end_of_regular_hours"]

_decode_system_event(buf) ==
    IF Len(buf) # 9 THEN Raise("struct.error")
    ELSE IF buf[1] \notin DOMAIN SYSTEM_EVENT_TYPES THEN Raise("KeyError")
    ELSE Return([type |-> "system_event", event |-> SYSTEM_EVENT_TYPES[buf[1]]])

LULD_TIER ==
    [c \in {0, 1, 2} |->
        CASE c = 0 -> "not_applicable"
          [] c = 1 -> "tier_1_nms_stock"
          [] c = 2 -> "tier_2_nms_stock"]

\* The inline flag decoding of _decode_security_directory.
SecurityDirectoryFlagSet_MutEtpMask(flags) ==
    (IF HasBit(flags, 128) THEN <<"test">> ELSE << >>)
    \o (IF HasBit(flags, 64) THEN <<"when_issued">> ELSE << >>)
    \o (IF HasBit(flags, 16) THEN <<"etp">> ELSE << >>)

SecurityDirectoryFlagSet(flags) ==
    (IF HasBit(flags, 128) THEN <<"test">> ELSE << >>)
    \o (IF HasBit(flags, 64) THEN <<"when_issued">> ELSE << >>)
    \o (IF HasBit(flags, 32) THEN <<"etp">> ELSE << >>)

\* conversions.py
from_security_directory_flags(flags) ==
    (IF HasBit(flags, 128) THEN <<"test">> ELSE << >>)
    \o (IF HasBit(flags, 64) THEN <<"when_issued">> ELSE << >>)
    \o (IF HasBit(flags, 32) THEN <<"etp">> ELSE << >>)

_decode_security_directory(buf) ==
    IF Len(buf) # 30 THEN Raise("struct.error")
    ELSE IF buf[30] \notin DOMAIN LULD_TIER THEN Raise("KeyError")
    ELSE Return([type |-> "security_directive",
                 flags |-> SecurityDirectoryFlagSet(buf[1]),
                 luld_tier |-> LULD_TIER[buf[30]]])

TRADING_STATUS_MESSAGES ==
    [c \in {72, 79, 80, 84} |->
        CASE c = 72 -> "all_halted"
          [] c = 79 -> "iex_released"
          [] c = 80 -> "iex_paused"
          [] c = 84 -> "iex_trading"]

_decode_trading_status(buf) ==
    IF Len(buf) # 21 THEN Raise("struct.error")
    ELSE IF _to_str_err(<<buf[1]>>) # OK THEN Raise("UnicodeDecodeError")
    ELSE IF buf[1] \notin DOMAIN TRADING_STATUS_MESSAGES THEN Raise("KeyError")
    ELSE IF _to_str_err(SubSeq(buf, 18, 21)) # OK THEN Raise("UnicodeDecodeError")
    ELSE Return([type |-> "trading_status",
                 description |-> TRADING_STATUS_MESSAGES[buf[1]]])

_decode_operational_halt(buf) ==
    IF Len(buf) # 17 THEN Raise("struct.error")
    ELSE LET e == FirstErr(<<_to_str_err(<<buf[1]>>), _to_str_err(SubSeq(buf, 10, 17))>>)
         IN  IF e # OK THEN Raise(e)
             ELSE Return([type |-> "operational_halt",
                          halt_status |-> _to_str_1(<<buf[1]>>)])

_decode_short_sale_price_test_status(buf) ==
    IF Len(buf) # 18 THEN Raise("struct.error")
    ELSE LET e == FirstErr(<<_to_str_err(SubSeq(buf, 10, 17)), _to_str_err(<<buf[18]>>)>>)
         IN  IF e # OK THEN Raise(e)
             ELSE Return([type |-> "short_sale_price_test_status",
                          is_test |-> (buf[1] = 1)])

_decode_quote_update(buf) ==
    IF Len(buf) # 41 THEN Raise("struct.error")
    ELSE IF _to_str_err(SubSeq(buf, 10, 17)) # OK THEN Raise("UnicodeDecodeError")
    ELSE Return([type |-> "quote_update", flags |-> buf[1]])

_from_sale_condition_flags(flags) ==
    (IF HasBit(flags, 128) THEN <<"iso">> ELSE << >>)
    \o (IF HasBit(flags, 64) THEN <<"out_of_hours">> ELSE << >>)
    \o (IF HasBit(flags, 32) THEN <<"odd_lot">> ELSE << >>)
    \o (IF HasBit(flags, 16) THEN <<"trade_through_except">> ELSE << >>)
    \o (IF HasBit(flags, 8) THEN <<"single_price_cross">> ELSE << >>)

_decode_trade_report(buf) ==
    IF Len(buf) # 37 THEN Raise("struct.error")
    ELSE IF _to_str_err(SubSeq(buf, 10, 17)) # OK THEN Raise("UnicodeDecodeError")
    ELSE Return([type |-> "trade_report",
                 flags |-> _from_sale_condition_flags(buf[1])])

PRICE_TYPE ==
    [c \in {81, 77} |-> CASE c = 81 -> "open" [] c = 77 -> "close"]

\* PRICE_TYPE.get(price_type, _to_str(price_type)): the default is evaluated
\* before the lookup, and is the result for a byte the table does not have.
_decode_official_price(buf) ==
    IF Len(buf) # 25 THEN Raise("struct.error")
    ELSE LET e == FirstErr(<<_to_str_err(<<buf[1]>>), _to_str_err(SubSeq(buf, 10, 17))>>)
         IN  IF e # OK THEN Raise(e)
             ELSE Return([type |-> "official_price",
                          price_type |-> IF buf[1] \in DOMAIN PRICE_TYPE
                                         THEN <<PRICE_TYPE[buf[1]]>>
                                         ELSE _to_str_1(<<buf[1]>>)])

\* sale_flags is unpacked with '1s', a bytes object: _from_sale_condition_flags
\* evaluates bytes & int, which raises TypeError.
_decode_trade_break(buf) ==
    IF Len(buf) # 37 THEN Raise("struct.error")
    ELSE Raise("TypeError")

_decode_auction_information(buf) ==
    IF Len(buf) # 79 THEN Raise("struct.error")
    ELSE LET e == FirstErr(<<_to_str_err(<<buf[1]>>),
                             _to_str_err(SubSeq(buf, 10, 17)),
                             _to_str_err(<<buf[42]>>)>>)
         IN  IF e # OK THEN Raise(e)
             ELSE Return([type |-> "auction_information",
                          auction_type |-> _to_str_1(<<buf[1]>>),
                          imbalance_side |-> _to_str_1(<<buf[42]>>),
                          extension_number |-> buf[43]])

_decode_price_level_update(side, buf) ==
    IF Len(buf) # 29 THEN Raise("struct.error")
    ELSE IF _to_str_err(SubSeq(buf, 10, 17)) # OK THEN Raise("UnicodeDecodeError")
    ELSE Return([type |-> "price_level_update",
                 side |-> side,
                 event_flags |-> IF buf[1] = 1 THEN "complete" ELSE "processing"])

SECURITY_EVENT ==
    [c \in {79, 67} |-> CASE c = 79 -> "opening" [] c = 67 -> "closing"]

_decode_security_event_message(buf) ==
    IF Len(buf) # 17 THEN Raise("struct.error")
    ELSE LET e == FirstErr(<<_to_str_err(<<buf[1]>>), _to_str_err(SubSeq(buf, 10, 17))>>)
         IN  IF e # OK THEN Raise(e)
             ELSE Return([type |-> "security_event",
                          security_event |-> IF buf[1] \in DOMAIN SECURITY_EVENT
                                             THEN <<SECURITY_EVENT[buf[1]]>>
                                             ELSE _to_str_1(<<buf[1]>>)])

\* The message tags of the dispatch table.
_DECODERS == {83, 68, 72, 79, 80, 81, 84, 88, 66, 65, 56, 53, 69}

DEEP_1_0 == "DEEPv1.0"
TOPS_1_6 == "TOPSv1.6"

_VERSIONED_DECODERS == {DEEP_1_0, TOPS_1_6}

decode_message(version, message_type, buf) ==
    IF version \notin _VERSIONED_DECODERS THEN Raise("KeyError")
    ELSE IF message_type \notin _DECODERS THEN Raise("KeyError")
    ELSE CASE message_type = 83 -> _decode_system_event(buf)
           [] message_type = 68 -> _decode_security_directory(buf)
           [] message_type = 72 -> _decode_trading_status(buf)
           [] message_type = 79 -> _decode_operational_halt(buf)
           [] message_type = 80 -> _decode_short_sale_price_test_status(buf)
           [] message_type = 81 -> _decode_quote_update(buf)
           [] message_type = 84 -> _decode_trade_report(buf)
           [] message_type = 88 -> _decode_official_price(buf)
           [] message_type = 66 -> _decode_trade_break(buf)
           [] message_type = 65 -> _decode_auction_information(buf)
           [] message_type = 56 -> _decode_price_level_update("buy", buf)
           [] message_type = 53 -> _decode_price_level_update("sell", buf)
           [] message_type = 69 -> _decode_security_event_message(buf)

(***************************************************************************)
(* parser.py: the segment decoder.                                         *)
(***************************************************************************)
\* The format characters of HEADER_PATTERN = '<BxHIIHHqqq' after the
\* byte-order mark: version, pad (reserved), message_protocol_id, channel_id,
\* session_id, payload_length, message_count, stream_offset,
\* first_message_seq_number, send_time.
HEADER_PATTERN == <<"B", "x", "H", "I", "I", "H", "H", "q", "q", "q">>

\* The standard size of a struct format character ('<': no alignment).
FormatSize(c) ==
    CASE c = "B" -> 1
      [] c = "x" -> 1
      [] c = "H" -> 2
      [] c = "I" -> 4
      [] c = "q" -> 8

\* struct.calcsize of a little-endian pattern
RECURSIVE calcsize_MutSkipPad(_)
calcsize_MutSkipPad(pattern) ==
    IF pattern = << >> THEN 0
    ELSE (IF pattern[1] = "x" THEN 0 ELSE FormatSize(pattern[1]))
         + calcsize_MutSkipPad(Tail(pattern))

RECURSIVE calcsize(_)
calcsize(pattern) ==
    IF pattern = << >> THEN 0
    ELSE FormatSize(pattern[1]) + calcsize(Tail(pattern))

\* HEADER_SIZE = struct.calcsize(HEADER_PATTERN)
HEADER_SIZE == calcsize(HEADER_PATTERN)
\* struct.calcsize('<h')
MESSAGE_LENGTH_SIZE == 2

\* Header.payload_length and Header.message_count of a buffer that holds a
\* whole header ('H' at offsets 12 and 14).
payload_length(buf) == unpack_H(Slice(buf, 12, 14))
message_count(buf) == unpack_H(Slice(buf, 14, 16))

_parse_message(protocol, buf) ==
    IF Len(buf) = 0 THEN Raise("IndexError")
    ELSE decode_message(protocol, buf[1], SliceFrom(buf, 1))

\* The result of _read: an error raised, None returned (none), or the list
\* of messages; end is the offset the frame loop stopped at.
ReadRaise(e) == [err |-> e, none |-> FALSE, messages |-> << >>, end |-> 0]

\* The frame loop of _read: n frames still to read, from offset start.
RECURSIVE ReadMessages_MutKeepPartial(_, _, _, _, _)
ReadMessages_MutKeepPartial(protocol, buf, start, n, messages) ==
    IF n = 0
    THEN [err |-> OK, none |-> FALSE, messages |-> messages, end |-> start]
    ELSE LET end1 == start + MESSAGE_LENGTH_SIZE
             prefix == Slice(buf, start, end1)
         IN  IF Len(prefix) # 2 THEN ReadRaise("struct.error")
             ELSE LET message_lengh == unpack_H(prefix)
                      end2 == end1 + message_lengh
                      message == _parse_message(protocol, Slice(buf, end1, end2))
                  IN  IF message.err # OK
                      THEN [err |-> OK, none |-> FALSE, messages |-> messages,
                            end |-> start]
                      ELSE ReadMessages_MutKeepPartial(protocol, buf, end2, n - 1,
                                                       Append(messages, message.rec))

RECURSIVE ReadMessages(_, _, _, _, _)
ReadMessages(protocol, buf, start, n, messages) ==
    IF n = 0
    THEN [err |-> OK, none |-> FALSE, messages |-> messages, end |-> start]
    ELSE LET end1 == start + MESSAGE_LENGTH_SIZE
             prefix == Slice(buf, start, end1)
         IN  IF Len(prefix) # 2 THEN ReadRaise("struct.error")
             ELSE LET message_lengh == unpack_H(prefix)
                      end2 == end1 + message_lengh
                      message == _parse_message(protocol, Slice(buf, end1, end2))
                  IN  IF message.err # OK THEN ReadRaise(message.err)
                      ELSE ReadMessages(protocol, buf, end2, n - 1,
                                        Append(messages, message.rec))

InvalidPayload == "RuntimeError: Invalid payload"

_read_MutLengthCheck(protocol, buf) ==
    IF Len(buf) < HEADER_SIZE THEN ReadRaise("struct.error")
    ELSE IF Len(buf) < HEADER_SIZE + payload_length(buf) THEN ReadRaise(InvalidPayload)
    ELSE IF payload_length(buf) = 0
         THEN [err |-> OK, none |-> TRUE, messages |-> << >>, end |-> HEADER_SIZE]
    ELSE ReadMessages(protocol, buf, HEADER_SIZE, message_count(buf), << >>)

_read_MutEmptyIsError(protocol, buf) ==
    IF Len(buf) < HEADER_SIZE THEN ReadRaise("struct.error")
    ELSE IF Len(buf) # HEADER_SIZE + payload_length(buf) THEN ReadRaise(InvalidPayload)
    ELSE IF payload_length(buf) = 0 THEN ReadRaise(InvalidPayload)
    ELSE ReadMessages(protocol, buf, HEADER_SIZE, message_count(buf), << >>)

_read(protocol, buf) ==
    IF Len(buf) < HEADER_SIZE THEN ReadRaise("struct.error")
    ELSE IF Len(buf) # HEADER_SIZE + payload_length(buf) THEN ReadRaise(InvalidPayload)
    ELSE IF payload_length(buf) = 0
         THEN [err |-> OK, none |-> TRUE, messages |-> << >>, end |-> HEADER_SIZE]
    ELSE ReadMessages(protocol, buf, HEADER_SIZE, message_count(buf), << >>)

(***************************************************************************)
(* The packets a capture of this model is made of.                         *)
(***************************************************************************)
Zeros(n) == [i \in 1..n |-> 0]
LE16(v) == <<v % 256, v \div 256>>

\* A transport header announcing pl payload bytes and mc messages.
HeaderBytes(pl, mc) ==
    <<1, 0>> \o <<4, 128>> \o <<1, 0, 0, 0>> \o <<0, 0, 135, 66>>
    \o LE16(pl) \o LE16(mc) \o Zeros(8) \o Zeros(8) \o Zeros(8)

\* A length-prefixed frame.
Frame(message) == LE16(Len(message)) \o message

\* A system_event message (tag 0x53) with the given event byte, timestamp 0.
SystemEventMessage(event) == <<83, event>> \o Zeros(8)

\* A packet that is an Ethernet frame carrying UDP with the given payload.
UdpPacket(load) == [kind |-> "packet", ether |-> TRUE, udp |-> TRUE, load |-> load]

Packets ==
    << \* 1: one system_event 'O'
       UdpPacket(HeaderBytes(12, 1) \o Frame(SystemEventMessage(79))),
       \* 2: two system_events 'S', 'R'
       UdpPacket(HeaderBytes(24, 2) \o Frame(SystemEventMessage(83))
                                    \o Frame(SystemEventMessage(82))),
       \* 3: an empty segment (heartbeat)
       UdpPacket(HeaderBytes(0, 0)),
       \* 4: one byte more than the header announces
       UdpPacket(HeaderBytes(12, 1) \o Frame(SystemEventMessage(67)) \o <<0>>),
       \* 5: one byte less than the header announces
       UdpPacket(HeaderBytes(13, 1) \o Frame(SystemEventMessage(67))),
       \* 6: shorter than a header
       UdpPacket(<<1, 0, 4, 128>>),
       \* 7: message_count 0 over a payload of one frame
       UdpPacket(HeaderBytes(12, 0) \o Frame(SystemEventMessage(69))),
       \* 8: message_count 1 over a payload of two frames
       UdpPacket(HeaderBytes(24, 1) \o Frame(SystemEventMessage(69))
                                    \o Frame(SystemEventMessage(77))),
       \* 9: a length prefix of 100 over the last 10 bytes of the payload
       UdpPacket(HeaderBytes(12, 1) \o LE16(100) \o SystemEventMessage(77)),
       \* 10: message_count 2 over a payload of one frame
       UdpPacket(HeaderBytes(12, 2) \o Frame(SystemEventMessage(67))),
       \* 11: a frame with the unknown tag 0x99
       UdpPacket(HeaderBytes(12, 1) \o Frame(<<153>> \o Zeros(9))),
       \* 12: a system_event with the unmapped event byte 'Z'
       UdpPacket(HeaderBytes(12, 1) \o Frame(SystemEventMessage(90))),
       \* 13: a packet that is not Ethernet but has a UDP layer
       [kind |-> "packet", ether |-> FALSE, udp |-> TRUE, load |-> <<0>>],
       \* 14: the capture source fails on this record (truncated file)
       [kind |-> "error", ether |-> FALSE, udp |-> FALSE, load |-> << >>],
       \* 15: an Ethernet frame without a UDP layer
       [kind |-> "packet", ether |-> TRUE, udp |-> FALSE, load |-> << >>],
       \* 16: a frame of length 0
       UdpPacket(HeaderBytes(2, 1) \o LE16(0)),
       \* 17: a system_event 'E' followed by a frame with the unknown tag 0x99
       UdpPacket(HeaderBytes(24, 2) \o Frame(SystemEventMessage(69))
                                    \o Frame(<<153>> \o Zeros(9))) >>

PacketIds == 1..Len(Packets)

(***************************************************************************)
(* parser.py: the streaming pipeline.                                      *)
(***************************************************************************)
VARIABLES
    capture,            \* the capture file: the packet ids the source yields
    protocol,           \* Parser.protocol
    queue_length,       \* Parser.queue_length
    position,           \* how many records of the capture the source has yielded
    closeCount,         \* how many times the capture source has been closed
    messages,           \* DeepPcapReader.messages, the bounded FIFO queue
    cancellation_token, \* DeepPcapReader.cancellation_token
    fillPc,             \* where the fill_thread is
    is_eof,             \* _fill's local is_eof
    pending,            \* _fill: the items of the current put loop not yet put
    failure,            \* the exception the fill_thread died of
    consPc,             \* where the consumer is
    eos,                \* __next__ has raised StopIteration
    delivered,          \* history: the records __next__ has returned
    published,          \* history: the records _fill has put
    readsAfterCancel,   \* history: read_packet calls begun with the token set
    frame,              \* decoder check: the message (tag and body) handed to _parse_message
    record              \* decoder check: what _parse_message made of frame

vars == <<capture, protocol, queue_length, position, closeCount, messages,
          cancellation_token, fillPc, is_eof, pending, failure, consPc, eos,
          delivered, published, readsAfterCancel, frame, record>>

\* frame has not been decoded
NotDecoded == [err |-> "<not decoded>", rec |-> [type |-> "<none>"]]

\* self.sentinal = object(): equal to nothing but itself.
sentinal == [type |-> "<sentinal>"]

(***************************************************************************)
(* queue.Queue(maxsize) for a positive maxsize.                            *)
(***************************************************************************)
\* put blocks while the queue is full
CanPut_MutUnbounded(q, maxsize) == TRUE

CanPut(q, maxsize) == Len(q) < maxsize

put(q, item) == Append(q, item)

\* get blocks while the queue is empty, and removes the oldest item
get_MutNewest(q) == [item |-> q[Len(q)], rest |-> SubSeq(q, 1, Len(q) - 1)]

get(q) == [item |-> Head(q), rest |-> Tail(q)]

\* Thread.join returns once the thread has terminated, normally or not.
Terminated_MutNoWait(pc) == TRUE

Terminated(pc) == pc \in {"done", "failed"}

\* What one pass of the loop body computes from the record the source is
\* at: read_packet raising, the packet being refused, or _read's result.
PacketOutcome(version, packet) ==
    IF packet.kind = "error" THEN ReadRaise("CaptureSourceError")
    ELSE IF ~packet.ether /\ packet.udp THEN ReadRaise("RuntimeError: Invalid packet")
    ELSE IF ~packet.udp THEN ReadRaise("IndexError")
    ELSE _read(version, packet.load)

\* The captures of the model: the sequences of at most MaxPackets packets in
\* which only the last packet may fail.  The fill_thread dies at the first
\* packet that fails and the source is never read past it, so what follows
\* such a packet in a file is never seen.
Captures ==
    {c \in UNION {[1..n -> PacketIds] : n \in 0..MaxPackets} :
        \A i \in 1..(Len(c) - 1) : PacketOutcome(DEEP_1_0, Packets[c[i]]).err = OK}

(***************************************************************************)
(* The state after Parser.__init__: the capture file is open.              *)
(***************************************************************************)
Init ==
    /\ capture \in Captures
    /\ protocol = DEEP_1_0   \* TOPS_1_6 selects the same table of decoders
    /\ queue_length \in 1..MaxQueueLength
    /\ position = 0
    /\ closeCount = 0
    /\ messages = << >>
    /\ cancellation_token = FALSE
    /\ fillPc = "new"
    /\ is_eof = FALSE
    /\ pending = << >>
    /\ failure = OK
    /\ consPc = "init"
    /\ eos = FALSE
    /\ delivered = << >>
    /\ published = << >>
    /\ readsAfterCancel = 0
    /\ frame = << >>
    /\ record = NotDecoded

(***************************************************************************)
(* The fill_thread: DeepPcapReader._fill.                                  *)
(***************************************************************************)
\* while not (is_eof or self.cancellation_token.is_set())
LoopEnds_MutIgnoreToken(eof, token) == eof

LoopEnds(eof, token) == eof \/ token

_fill_while ==
    /\ fillPc = "while"
    /\ fillPc' = IF LoopEnds(is_eof, cancellation_token) THEN "done" ELSE "read"
    /\ UNCHANGED <<frame, record, capture, protocol, queue_length, position, closeCount, messages,
                   cancellation_token, is_eof, pending, failure, consPc, eos,
                   delivered, published, readsAfterCancel>>

\* The thread dies of exception e.
Die(e) ==
    /\ fillPc' = "failed"
    /\ failure' = e
    /\ UNCHANGED <<is_eof, pending>>

\* What _fill does with a packet the source returned.
HandlePacket(packet) ==
    LET r == PacketOutcome(protocol, packet)
    IN  IF r.err # OK THEN Die(r.err)
        ELSE /\ pending' = IF r.none THEN << >> ELSE r.messages
             /\ fillPc' = IF r.none \/ r.messages = << >> THEN "while" ELSE "put"
             /\ UNCHANGED <<is_eof, failure>>

\* packet = self.reader.read_packet() and the branch taken on it
_fill_read_packet ==
    /\ fillPc = "read"
    /\ readsAfterCancel' = readsAfterCancel + (IF cancellation_token THEN 1 ELSE 0)
    /\ IF closeCount > 0
       THEN \* the file object is closed: the read raises
            /\ Die("ValueError")
            /\ UNCHANGED position
       ELSE IF position = Len(capture)
       THEN \* packet is None
            /\ is_eof' = TRUE
            /\ pending' = <<sentinal>>
            /\ fillPc' = "put"
            /\ UNCHANGED <<position, failure>>
       ELSE /\ position' = position + 1
            /\ HandlePacket(Packets[capture[position + 1]])
    /\ UNCHANGED <<frame, record, capture, protocol, queue_length, closeCount, messages,
                   cancellation_token, consPc, eos, delivered, published>>

\* self.messages.put(...), of the sentinal or of the next message of the loop
_fill_put ==
    /\ fillPc = "put"
    /\ CanPut(messages, queue_length)
    /\ messages' = put(messages, Head(pending))
    /\ published' = IF Head(pending) = sentinal THEN published
                    ELSE Append(published, Head(pending))
    /\ pending' = Tail(pending)
    /\ fillPc' = IF Tail(pending) = << >> THEN "while" ELSE "put"
    /\ UNCHANGED <<frame, record, capture, protocol, queue_length, position, closeCount,
                   cancellation_token, is_eof, failure, consPc, eos, delivered,
                   readsAfterCancel>>

(***************************************************************************)
(* The consumer: with Parser(...) as reader: for message in reader: ...    *)
(***************************************************************************)
\* Parser.__enter__: the DeepPcapReader is constructed
Parser__enter__ ==
    /\ consPc = "init"
    /\ consPc' = "entered"
    /\ UNCHANGED <<frame, record, capture, protocol, queue_length, position, closeCount, messages,
                   cancellation_token, fillPc, is_eof, pending, failure, eos,
                   delivered, published, readsAfterCancel>>

\* DeepPcapReader.__iter__: the fill_thread starts
__iter__ ==
    /\ consPc = "entered"
    /\ consPc' = "loop"
    /\ fillPc' = "while"
    /\ UNCHANGED <<frame, record, capture, protocol, queue_length, position, closeCount, messages,
                   cancellation_token, is_eof, pending, failure, eos,
                   delivered, published, readsAfterCancel>>

\* the for loop calls __next__, which enters self.messages.get()
__next___call ==
    /\ consPc = "loop"
    /\ consPc' = "get"
    /\ UNCHANGED <<frame, record, capture, protocol, queue_length, position, closeCount, messages,
                   cancellation_token, fillPc, is_eof, pending, failure, eos,
                   delivered, published, readsAfterCancel>>

\* self.messages.get() returns; the message is compared with the sentinal
__next___get ==
    /\ consPc = "get"
    /\ messages # << >>
    /\ LET g == get(messages)
       IN  /\ messages' = g.rest
           /\ IF g.item = sentinal
              THEN /\ consPc' = "join"
                   /\ UNCHANGED delivered
              ELSE /\ consPc' = "loop"
                   /\ delivered' = Append(delivered, g.item)
    /\ UNCHANGED <<frame, record, capture, protocol, queue_length, position, closeCount,
                   cancellation_token, fillPc, is_eof, pending, failure, eos,
                   published, readsAfterCancel>>

\* self.fill_thread.join(); raise StopIteration
__next___join ==
    /\ consPc = "join"
    /\ Terminated(fillPc)
    /\ consPc' = "stopped"
    /\ eos' = TRUE
    /\ UNCHANGED <<frame, record, capture, protocol, queue_length, position, closeCount, messages,
                   cancellation_token, fillPc, is_eof, pending, failure,
                   delivered, published, readsAfterCancel>>

\* __next__ is called again after it has raised StopIteration
__next___again ==
    /\ consPc = "stopped"
    /\ consPc' = "get"
    /\ UNCHANGED <<frame, record, capture, protocol, queue_length, position, closeCount,
                   messages, cancellation_token, fillPc, is_eof, pending, failure,
                   eos, delivered, published, readsAfterCancel>>

\* Parser.__exit__: the with block is left: after the loop has ended, or
\* from the loop body (break, return, an exception of the body), or before
\* the loop.
Parser__exit__ ==
    /\ consPc \in {"entered", "loop", "stopped"}
    /\ consPc' = "exited"
    /\ closeCount' = closeCount + 1
    /\ UNCHANGED <<frame, record, capture, protocol, queue_length, position, messages,
                   cancellation_token, fillPc, is_eof, pending, failure, eos,
                   delivered, published, readsAfterCancel>>

\* the owning caller sets reader.cancellation_token
Cancel ==
    /\ consPc # "init"
    /\ ~cancellation_token
    /\ cancellation_token' = TRUE
    /\ UNCHANGED <<frame, record, capture, protocol, queue_length, position, closeCount, messages,
                   fillPc, is_eof, pending, failure, consPc, eos,
                   delivered, published, readsAfterCancel>>

Next ==
    \/ _fill_while
    \/ _fill_read_packet
    \/ _fill_put
    \/ Parser__enter__
    \/ __iter__
    \/ __next___call
    \/ __next___get
    \/ __next___join
    \/ __next___again
    \/ Parser__exit__
    \/ Cancel

Spec == Init /\ [][Next]_vars

\* The threads are scheduled: a step of either thread that stays possible is
\* taken.  Nothing obliges the caller to cancel or to leave the loop early.
FairSpec ==
    /\ Spec
    /\ WF_vars(_fill_while)
    /\ WF_vars(_fill_read_packet)
    /\ WF_vars(_fill_put)
    /\ WF_vars(Parser__enter__)
    /\ WF_vars(__iter__)
    /\ WF_vars(__next___call)
    /\ WF_vars(__next___get)
    /\ WF_vars(__next___join)

(***************************************************************************)
(* The message decoder on its own: one message is handed to                *)
(* _parse_message, as _read does with each frame.                          *)
(***************************************************************************)
Bytes == 0..255

\* The message with the given tag whose body has size bytes: the first byte
\* is first, the last byte is last, the bytes between are 0.
MessageBytes(tag, first, size, last) == <<tag, first>> \o Zeros(size - 2) \o <<last>>

\* The messages decoded: every value of the leading code or flags byte of
\* system_event, security_directory (with mapped and unmapped luld_tier),
\* trading_status, official_price, security_event, trade_report, trade_break.
Frames ==
    {MessageBytes(83, b, 9, 0) : b \in Bytes}
    \cup {MessageBytes(68, b, 30, l) : b \in Bytes, l \in {0, 1, 2, 3}}
    \cup {MessageBytes(72, b, 21, 0) : b \in Bytes}
    \cup {MessageBytes(88, b, 25, 0) : b \in Bytes}
    \cup {MessageBytes(69, b, 17, 0) : b \in Bytes}
    \cup {MessageBytes(84, b, 37, 0) : b \in Bytes}
    \cup {MessageBytes(66, b, 37, 0) : b \in Bytes}

CodecInit ==
    /\ frame \in Frames
    /\ record = NotDecoded
    /\ protocol \in _VERSIONED_DECODERS
    /\ capture = << >>
    /\ queue_length = 1
    /\ position = 0
    /\ closeCount = 0
    /\ messages = << >>
    /\ cancellation_token = FALSE
    /\ fillPc = "new"
    /\ is_eof = FALSE
    /\ pending = << >>
    /\ failure = OK
    /\ consPc = "init"
    /\ eos = FALSE
    /\ delivered = << >>
    /\ published = << >>
    /\ readsAfterCancel = 0

\* message = self._parse_message(buf[start:end])
DecodeFrame ==
    /\ record = NotDecoded
    /\ frame # << >>
    /\ record' = _parse_message(protocol, frame)
    /\ UNCHANGED <<frame, capture, protocol, queue_length, position, closeCount,
                   messages, cancellation_token, fillPc, is_eof, pending, failure,
                   consPc, eos, delivered, published, readsAfterCancel>>

CodecNext == DecodeFrame

CodecSpec == CodecInit /\ [][CodecNext]_vars

(***************************************************************************)
(* What the claims speak of.                                               *)
(***************************************************************************)
IsPrefix(s, t) == Len(s) <= Len(t) /\ s = SubSeq(t, 1, Len(s))

\* The records of the capture c from packet i on, in source order and frame
\* order, up to the first packet that fails.
RECURSIVE DecodedFrom(_, _)
DecodedFrom(c, i) ==
    IF i > Len(c) THEN << >>
    ELSE LET r == PacketOutcome(protocol, Packets[c[i]])
         IN  IF r.err # OK THEN << >>
             ELSE r.messages \o DecodedFrom(c, i + 1)

Decoded == DecodedFrom(capture, 1)

\* The records of the first n packets of the capture.
DecodedUpTo(n) == DecodedFrom(SubSeq(capture, 1, n), 1)

\* Every packet of the capture decodes.
CaptureDecodes ==
    \A i \in 1..Len(capture) : PacketOutcome(protocol, Packets[capture[i]]).err = OK

\* The packet is a UDP datagram whose payload holds at least a header.
IsSegment(p) == p.kind = "packet" /\ p.ether /\ p.udp /\ Len(p.load) >= HEADER_SIZE

\* The segments _fill has handed to _read so far.
ReadSegments == {i \in 1..position : IsSegment(Packets[capture[i]])}

\* The consumer is inside get() on an empty queue and the fill_thread is gone:
\* nothing will ever be put, the pull never returns.
ConsumerBlockedForever == consPc = "get" /\ messages = << >> /\ Terminated(fillPc)

\* C1: the records the pulls have returned are, at every moment, a prefix of
\* the records decoded from the capture in source order and frame order.
C1_DeliveredIsPrefixOfDecoded == IsPrefix(delivered, Decoded)

\* C1 witness: three records of two segments have been pulled, through a
\* queue that held two of them at once.
C1_Witness ==
    /\ Len(delivered) >= 3
    /\ position >= 2
    /\ delivered[1] # delivered[2]
    /\ delivered[2] # delivered[3]

\* C2: on a capture that decodes, with the token never set and a consumer
\* that keeps pulling, StopIteration is eventually raised; and whenever it is
\* raised the fill_thread has terminated and every decoded record has been
\* returned.
C2_CompletesAndJoins ==
    /\ [](eos => (fillPc = "done" /\ delivered = Decoded))
    /\ (CaptureDecodes => <>(eos \/ cancellation_token \/ consPc = "exited"))

\* C2 witness: StopIteration was raised after three records, no token set.
C2_Witness ==
    /\ eos
    /\ consPc = "stopped"
    /\ ~cancellation_token
    /\ Len(delivered) >= 3

\* C3: the queue never holds more than queue_length items, and while it is
\* full the producer stays in its put: only a pull changes the queue.
C3_BoundedQueue ==
    /\ [](Len(messages) <= queue_length)
    /\ [][Len(messages) = queue_length =>
            /\ (messages' # messages => consPc = "get" /\ messages' = Tail(messages))
            /\ (fillPc = "put" =>
                  fillPc' = "put" /\ pending' = pending /\ published' = published)]_vars

\* C3 witness: queue_length records published, none pulled, one more record
\* waiting in put.
C3_Witness ==
    /\ Len(messages) = queue_length
    /\ Len(published) = queue_length
    /\ delivered = << >>
    /\ fillPc = "put"
    /\ Head(pending) # sentinal

\* C4 as claimed: no read_packet call begins once the token is set.
C4_NoReadAfterCancel == readsAfterCancel = 0

\* C4 as amended: once the token is set at most one more read_packet call
\* begins (the one whose loop test had passed before), and a loop test made
\* with the token set never leads to a read.
C4_AtMostOneReadAfterCancel ==
    /\ [](readsAfterCancel <= 1)
    /\ [][fillPc = "while" /\ cancellation_token => fillPc' # "read"]_vars

\* C4 witness: the token was set between the loop test and the read; the
\* thread then left the loop with packets still unread.
C4_Witness ==
    /\ cancellation_token
    /\ readsAfterCancel = 1
    /\ fillPc = "done"
    /\ ~is_eof
    /\ position < Len(capture)

\* C5 as claimed: when the token has ended the producer, a consumer that keeps
\* pulling is not left blocked: end-of-stream reaches it.
C5_EndOfStreamAfterCancel ==
    ~(cancellation_token /\ fillPc = "done" /\ ~is_eof /\ ConsumerBlockedForever)

\* C6 as claimed: when the producer has died of an error, the consumer's pull
\* does not block forever on the queue.
C6_ErrorSurfaced == ~(fillPc = "failed" /\ ConsumerBlockedForever)

\* C7 as claimed: the source is closed at most once, and it has been closed
\* once the stream has ended and nothing more can happen.
C7_SourceClosedExactlyOnce ==
    /\ closeCount <= 1
    /\ (ConsumerBlockedForever => closeCount = 1)

\* C8: _read raises 'Invalid payload' exactly for the buffers whose length is
\* not HEADER_SIZE + payload_length; it then returns no message, the thread
\* dies, and nothing of that segment is published.
C8_LengthCheck ==
    \A i \in ReadSegments :
        LET buf == Packets[capture[i]].load
            r == _read(protocol, buf)
        IN  /\ (r.err = InvalidPayload) <=> (Len(buf) # HEADER_SIZE + payload_length(buf))
            /\ (r.err = InvalidPayload) =>
                 /\ r.messages = << >>
                 /\ (i = position =>
                       /\ fillPc = "failed"
                       /\ failure = InvalidPayload
                       /\ published = DecodedUpTo(i - 1))

\* C8 witness: a segment with a length mismatch was read after a segment
\* whose records were published.
C8_Witness ==
    /\ fillPc = "failed"
    /\ failure = InvalidPayload
    /\ position = 2
    /\ published # << >>

\* C9 as claimed: a segment that passes the length check either fails or has
\* its payload consumed exactly, by exactly message_count frames.
C9_FramesConsumePayload ==
    \A i \in ReadSegments :
        LET buf == Packets[capture[i]].load
            r == _read(protocol, buf)
        IN  Len(buf) = HEADER_SIZE + payload_length(buf) =>
              \/ r.err # OK
              \/ /\ r.end = HEADER_SIZE + payload_length(buf)
                 /\ Len(r.messages) = message_count(buf)

\* A segment that is exactly a header with payload_length 0.
IsEmptySegment(p) ==
    IsSegment(p) /\ Len(p.load) = HEADER_SIZE /\ payload_length(p.load) = 0

\* C10: reading an empty segment raises nothing and publishes nothing, and
\* the thread goes back to the loop test, from where it reads on.
C10_EmptySegmentSkipped ==
    /\ [][(/\ fillPc = "read"
           /\ position' = position + 1
           /\ IsEmptySegment(Packets[capture[position + 1]]))
          => (/\ fillPc' = "while"
              /\ ~is_eof'
              /\ failure' = OK
              /\ pending' = << >>
              /\ published' = published
              /\ messages' = messages)]_vars
    /\ [][(fillPc = "while" /\ ~is_eof /\ ~cancellation_token /\ fillPc' # fillPc)
          => fillPc' = "read"]_vars

\* C10 witness: an empty segment was read first, and the records of the
\* segment after it were published.
C10_Witness ==
    /\ position = 2
    /\ IsEmptySegment(Packets[capture[1]])
    /\ published # << >>
    /\ failure = OK

\* C15 as claimed: the header size the decoder uses is 34: every segment
\* _read accepts is 34 bytes of header followed by payload_length bytes.
C15_HeaderSizeIs34 ==
    \A i \in ReadSegments :
        LET buf == Packets[capture[i]].load
        IN  _read(protocol, buf).err = OK =>
              (HEADER_SIZE = 34 /\ Len(buf) = 34 + payload_length(buf))

\* C15 as amended: the header size the decoder uses is 40, the sum of the
\* field widths 1+1+2+4+4+2+2+8+8+8, and 40 is the offset at which the first
\* frame's length prefix is read: the first message of every segment that
\* decodes is the frame whose prefix is at buf[40:42].
C15_HeaderSizeIs40 ==
    /\ HEADER_SIZE = 40
    /\ HEADER_SIZE = 1 + 1 + 2 + 4 + 4 + 2 + 2 + 8 + 8 + 8
    /\ \A i \in ReadSegments :
         LET buf == Packets[capture[i]].load
             r == _read(protocol, buf)
         IN  (r.err = OK /\ r.messages # << >>) =>
               r.messages[1] =
                 _parse_message(protocol,
                                Slice(buf, 42, 42 + unpack_H(Slice(buf, 40, 42)))).rec

\* C15 witness: a segment of 40 + 12 bytes was read, and its message, framed
\* right after the 40-byte header, was published.
C15_Witness ==
    /\ position = 1
    /\ Len(Packets[capture[1]].load) = 52
    /\ Len(published) = 1
    /\ published[1].type = "system_event"

\* The frame carries a code byte that its kind's table does not map:
\* system_event event, security_directory luld_tier, trading_status status,
\* official_price price_type, security_event event.
UnmappedCode(f) ==
    \/ f[1] = 83 /\ f[2] \notin {79, 83, 82, 67, 69, 77}
    \/ f[1] = 68 /\ f[Len(f)] \notin {0, 1, 2}
    \/ f[1] = 72 /\ f[2] \notin {72, 79, 80, 84}
    \/ f[1] = 88 /\ f[2] \notin {81, 77}
    \/ f[1] = 69 /\ f[2] \notin {79, 67}

\* C12 as claimed: decoding a message whose code byte has no mapping fails;
\* no record is returned for it.
C12_UnmappedCodeFails ==
    (record # NotDecoded /\ UnmappedCode(frame)) => record.err # OK

\* The elements of a list.
Elements(list) == {list[i] : i \in 1..Len(list)}

\* C13: for every flags byte the security_directory decoder returns a list
\* without repetition that holds 'test' iff bit 0x80 is set, 'when_issued'
\* iff bit 0x40, 'etp' iff bit 0x20 and nothing else, and it is the list
\* conversions.from_security_directory_flags returns.
C13_SecurityDirectoryFlags ==
    (record # NotDecoded /\ frame[1] = 68 /\ record.err = OK) =>
        LET b == frame[2]
            flags == record.rec.flags
        IN  /\ Elements(flags) =
                 (IF b >= 128 THEN {"test"} ELSE {})
                 \cup (IF b % 128 >= 64 THEN {"when_issued"} ELSE {})
                 \cup (IF b % 64 >= 32 THEN {"etp"} ELSE {})
            /\ Cardinality(Elements(flags)) = Len(flags)
            /\ flags = from_security_directory_flags(b)
            /\ (b = 128 => flags = <<"test">>)
            /\ (b = 0 => flags = << >>)
            /\ (b = 224 => Elements(flags) = {"test", "when_issued", "etp"})

\* C13 witness: a security_directory message with flags 0xE0 was decoded
\* into a record with three flags.
C13_Witness ==
    /\ frame # << >>
    /\ frame[1] = 68
    /\ frame[2] = 224
    /\ record.err = OK
    /\ record.rec.type = "security_directive"
    /\ Len(record.rec.flags) = 3

\* C14 as claimed: a well-formed trade_break body decodes, and its flag set is
\* the one trade_report decoding yields for the same body.
C14_TradeBreakDecodes ==
    (record # NotDecoded /\ frame[1] = 66) =>
        /\ record.err = OK
        /\ record.rec.sale_flags = _decode_trade_report(SliceFrom(frame, 1)).rec.flags

\* The frames the length prefixes cut out of buf from offset start on, at
\* most n of them, up to the first prefix that is not whole.
RECURSIVE FramesOf(_, _, _)
FramesOf(buf, start, n) ==
    IF n = 0 \/ Len(Slice(buf, start, start + MESSAGE_LENGTH_SIZE)) # 2 THEN << >>
    ELSE LET len == unpack_H(Slice(buf, start, start + MESSAGE_LENGTH_SIZE))
         IN  <<Slice(buf, start + MESSAGE_LENGTH_SIZE, start + MESSAGE_LENGTH_SIZE + len)>>
             \o FramesOf(buf, start + MESSAGE_LENGTH_SIZE + len, n - 1)

\* The frames of a segment that passes the length check with a payload.
SegmentFrames(p) == FramesOf(p.load, HEADER_SIZE, message_count(p.load))

HasPayload(p) ==
    /\ IsSegment(p)
    /\ Len(p.load) = HEADER_SIZE + payload_length(p.load)
    /\ payload_length(p.load) > 0

\* Frame k of the segment is reached by the decoder: the frames before it
\* decode.
Reached(p, k) ==
    \A j \in 1..(k - 1) : _parse_message(protocol, SegmentFrames(p)[j]).err = OK

\* The segment has a frame, reached by the decoder, whose tag is not in the
\* dispatch table.
HasUnknownTag(p) ==
    /\ HasPayload(p)
    /\ \E k \in 1..Len(SegmentFrames(p)) :
         /\ SegmentFrames(p)[k] # << >>
         /\ SegmentFrames(p)[k][1] \notin _DECODERS
         /\ Reached(p, k)

\* C11 as claimed: a frame with an unknown tag ends the stream with an error
\* (it is not skipped: nothing after it is read or published), and that
\* failure reaches the consumer, which is not left blocked.
C11_UnknownTagFailsStream ==
    \A i \in ReadSegments :
        HasUnknownTag(Packets[capture[i]]) =>
            /\ i = position
            /\ fillPc = "failed"
            /\ failure = "KeyError"
            /\ ~ConsumerBlockedForever

\* Some frame of the segment fails to decode, or a length prefix is cut off.
DecodeFails(p) ==
    /\ HasPayload(p)
    /\ \/ Len(SegmentFrames(p)) < message_count(p.load)
       \/ \E k \in 1..Len(SegmentFrames(p)) :
            _parse_message(protocol, SegmentFrames(p)[k]).err # OK

\* C16: when a frame of a segment fails to decode, the thread dies at that
\* segment having published exactly the records of the earlier segments:
\* no record of the failing segment is ever put.
C16_AllOrNothing ==
    \A i \in ReadSegments :
        DecodeFails(Packets[capture[i]]) =>
            /\ i = position
            /\ fillPc = "failed"
            /\ published = DecodedUpTo(i - 1)
            /\ \A k \in 1..Len(messages) : messages[k] \in Elements(DecodedUpTo(i - 1))

\* C16 witness: the second segment failed at its second frame, after its
\* first frame had decoded; the records of the first segment are published.
C16_Witness ==
    /\ position = 2
    /\ fillPc = "failed"
    /\ DecodeFails(Packets[capture[2]])
    /\ _parse_message(protocol, SegmentFrames(Packets[capture[2]])[1]).err = OK
    /\ published # << >>
    /\ published = DecodedUpTo(1)

\* C17 as claimed: the fill_thread never reads from the closed source: once
\* the source is closed the thread is not running.
C17_NoReadAfterClose ==
    /\ failure # "ValueError"
    /\ (closeCount > 0 => fillPc \in {"new", "done", "failed"})

\* C18 as claimed: a pull made after StopIteration has been raised does not
\* block: it is not left on the empty queue of the terminated thread.
C18_EndOfStreamSticky == ~(eos /\ ConsumerBlockedForever)

====
